---- MODULE Spec2Model ----
(***************************************************************************)
(* Model of the command memory server: the commands table (models.py),     *)
(* the transactional scope (database.py), the query and preference layer   *)
(* (crud.py) and the two boundaries of the facade (mcp_server.py).         *)
(*                                                                         *)
(* Python strings are TLA+ strings; TLC evaluates Len, SubSeq and \o on    *)
(* them, so substring tests, join and split are computed character by      *)
(* character.  Other Python values are tagged records (see NoneV, StrV,    *)
(* IntV, ListV).                                                           *)
(***************************************************************************)
EXTENDS Integers, Sequences, FiniteSets, TLC

VARIABLES rows, clock, tieRank, call, resp, pc, pending, writer, session

vars == <<rows, clock, tieRank, call, resp, pc, pending, writer, session>>

(***************************************************************************)
(* Bounds                                                                  *)
(***************************************************************************)
MaxRows == 2
MaxListRows == 3
MaxTagRows == 1
MaxPrefRows == 2
MaxClock == 1
MaxLimit == 4
MaxTags == 2
NumCallers == 3
NumScopes == 2

(***************************************************************************)
(* Python values                                                           *)
(***************************************************************************)
\* None; "text"; 7; [x, y]; a JSON object as a function on its keys
NoneV == [t |-> "none"]
StrV(s) == [t |-> "str", s |-> s]
IntV(n) == [t |-> "int", n |-> n]
ListV(xs) == [t |-> "list", xs |-> xs]
DictV(d) == [t |-> "dict", d |-> d]

\* bool(x) for the values above
Truthy(x) ==
  CASE x.t = "none" -> FALSE
    [] x.t = "str" -> x.s # ""
    [] x.t = "int" -> x.n # 0
    [] x.t = "list" -> x.xs # <<>>
    [] x.t = "dict" -> DOMAIN x.d # {}

Digit(d) == SubSeq("0123456789", d + 1, d + 1)

RECURSIVE NatToStr(_)
NatToStr(n) == IF n < 10 THEN Digit(n) ELSE NatToStr(n \div 10) \o Digit(n % 10)

\* str(x): a string is itself, an int its decimal digits
PyStr(x) ==
  CASE x.t = "str" -> x.s
    [] x.t = "int" -> IF x.n < 0 THEN "-" \o NatToStr(0 - x.n) ELSE NatToStr(x.n)
    [] x.t = "none" -> "None"
    [] x.t = "list" -> "[...]"
    [] x.t = "dict" -> "{...}"

Min(a, b) == IF a < b THEN a ELSE b

\* dict.get on a dict (a function on its keys)
Get(d, key, default) == IF key \in DOMAIN d THEN d[key] ELSE default

\* The element of a one-element set.  Only({F(v) : v \in {e}}) is F(e) with e
\* computed once, however often F reads v.
Only(S) == CHOOSE x \in S : TRUE

\* needle in hay
Contains(hay, needle) ==
  \E h \in {hay}, n \in {needle} :
    \E i \in 1..(Len(h) - Len(n) + 1) : SubSeq(h, i, i + Len(n) - 1) = n

\* sep.join(parts)
RECURSIVE StrJoin(_, _)
StrJoin(parts, sep) ==
  IF parts = <<>> THEN ""
  ELSE IF Len(parts) = 1 THEN parts[1]
  ELSE parts[1] \o sep \o StrJoin(Tail(parts), sep)

\* index of the first occurrence of sep at or after position i, 0 if none
RECURSIVE FindFrom(_, _, _)
FindFrom(s, sep, i) ==
  IF i + Len(sep) - 1 > Len(s) THEN 0
  ELSE IF SubSeq(s, i, i + Len(sep) - 1) = sep THEN i
  ELSE FindFrom(s, sep, i + 1)

\* the pieces of s from position i on
RECURSIVE SplitFrom(_, _, _)
SplitFrom(s, sep, i) ==
  Only({IF k = 0 THEN <<SubSeq(s, i, Len(s))>>
        ELSE <<SubSeq(s, i, k - 1)>> \o SplitFrom(s, sep, k + Len(sep)) :
        k \in {FindFrom(s, sep, i)}})

\* s.split(sep): always at least one piece
StrSplit(s, sep) == Only({SplitFrom(v, sep, 1) : v \in {s}})

(***************************************************************************)
(* models.Command and the commands table                                   *)
(***************************************************************************)
\* id: INTEGER PRIMARY KEY, assigned by the table as one more than the largest id
NextIdReused(table) == IF table = <<>> THEN 1 ELSE table[Len(table)].id
NextId(table) == IF table = <<>> THEN 1 ELSE table[Len(table)].id + 1

\* tags column written by create_command
TagsColumn(tags) == IF tags # <<>> THEN StrJoin(tags, ",") ELSE ""

\* tags read back from the column
TagsOfNoGuard(column) == StrSplit(column, ",")
TagsOf(column) == IF column # "" THEN StrSplit(column, ",") ELSE <<>>

\* the row create_command adds; timestamp defaults to utcnow at insert
Command(table, command_text, tags, now) ==
  [id |-> NextId(table), command_text |-> command_text,
   tags |-> TagsColumn(tags), timestamp |-> now]

\* datetime.isoformat() of a clock reading (the clock counts ticks)
Isoformat(ts) == "T" \o NatToStr(ts)

\* _serialize_commands
SerializeCommands(rs) ==
  [i \in 1..Len(rs) |->
     [command_text |-> rs[i].command_text,
      tags |-> TagsOf(rs[i].tags),
      timestamp |-> Isoformat(rs[i].timestamp) \o "Z"]]

\* ORDER BY timestamp DESC: the order among equal timestamps is the engine's (rank)
TimestampDesc(rs, rank) ==
  SortSeq(rs, LAMBDA a, b : a.timestamp > b.timestamp
                            \/ (a.timestamp = b.timestamp /\ rank[a.id] < rank[b.id]))

\* LIMIT n of the engine: a negative n is no limit
LimitOffByOne(rs, n) == IF n < 0 THEN rs ELSE SubSeq(rs, 1, Min(n - 1, Len(rs)))
Limit(rs, n) == IF n < 0 THEN rs ELSE SubSeq(rs, 1, Min(n, Len(rs)))

Ids(rs) == [i \in 1..Len(rs) |-> rs[i].id]

(***************************************************************************)
(* crud.py: the query layer.  Each function runs inside one                *)
(* session_scope, so a call either commits its row or leaves the table.    *)
(***************************************************************************)
Payload(body) == [out |-> "payload", body |-> body]
Fault(exc) == [out |-> "fault", exc |-> exc]

AllStr(tags) == \A i \in 1..Len(tags) : tags[i].t = "str"
Strings(tags) == [i \in 1..Len(tags) |-> tags[i].s]

\* create_command: ",".join raises TypeError on a non-string item, the scope
\* rolls back and the exception propagates
create_command(table, now, command_text, tags) ==
  IF AllStr(tags)
  THEN [raised |-> "", table |-> Append(table, Command(table, command_text, Strings(tags), now))]
  ELSE [raised |-> "TypeError", table |-> table]

\* list_commands; ids is the order of the rows behind the items
list_commands(table, rank) ==
  LET found == TimestampDesc(table, rank)
  IN [out |-> "payload", body |-> SerializeCommands(found), ids |-> Ids(found)]

\* get_recent_context
get_recent_context(table, rank, limit) ==
  LET recents == Limit(TimestampDesc(table, rank), limit)
      items == SerializeCommands(recents)
  IN [out |-> "payload",
      body |-> [recent_commands |-> [i \in 1..Len(items) |-> items[i].command_text],
                items |-> items],
      ids |-> Ids(recents)]

(***************************************************************************)
(* crud.py: analyze_preferences.  A Python dict used as a counter is the   *)
(* sequence of its [k, n] entries in insertion order.                      *)
(***************************************************************************)
UpperChars == "ABCDEFGHIJKLMNOPQRSTUVWXYZ"
LowerChars == "abcdefghijklmnopqrstuvwxyz"

Chars(s) == {SubSeq(s, i, i) : i \in 1..Len(s)}
ToLower == [c \in Chars(UpperChars) |-> LET k == FindFrom(UpperChars, c, 1)
                                         IN SubSeq(LowerChars, k, k)]
ToUpper == [c \in Chars(LowerChars) |-> LET k == FindFrom(LowerChars, c, 1)
                                         IN SubSeq(UpperChars, k, k)]

\* each character of s from position i on, mapped by to where to has it
RECURSIVE MapFrom(_, _, _)
MapFrom(s, to, i) ==
  IF i > Len(s) THEN ""
  ELSE Only({IF c \in DOMAIN to THEN to[c] ELSE c : c \in {SubSeq(s, i, i)}})
         \o MapFrom(s, to, i + 1)

\* str.lower, str.upper
Lower(s) == Only({MapFrom(v, ToLower, 1) : v \in {s}})
Upper(s) == Only({MapFrom(v, ToUpper, 1) : v \in {s}})

\* str.capitalize
Capitalize(s) ==
  IF s = "" THEN "" ELSE Upper(SubSeq(s, 1, 1)) \o Lower(SubSeq(s, 2, Len(s)))

\* s from position i on, with each old replaced by new
RECURSIVE ReplaceFrom(_, _, _, _)
ReplaceFrom(s, old, new, i) ==
  Only({IF k = 0 THEN SubSeq(s, i, Len(s))
        ELSE SubSeq(s, i, k - 1) \o new \o ReplaceFrom(s, old, new, k + Len(old)) :
        k \in {FindFrom(s, old, i)}})

\* str.replace(old, new), old not empty
StrReplace(s, old, new) == Only({ReplaceFrom(v, old, new, 1) : v \in {s}})

lang_markers ==
  <<[lang |-> "python",
     markers |-> <<"python", ".py", "pip", "pytest", "uv ", "conda", "poetry", "ruff", "mypy">>],
    [lang |-> "typescript",
     markers |-> <<"typescript", "ts ", ".ts", "tsc", "pnpm", "vite", "nextjs", "next.js">>],
    [lang |-> "javascript",
     markers |-> <<"javascript", "js ", ".js", "npm", "yarn", "node">>],
    [lang |-> "go", markers |-> <<"golang", " go ", ".go", "go build", "go test">>],
    [lang |-> "java", markers |-> <<" java ", ".java", "maven", "mvn ", "gradle">>],
    [lang |-> "rust", markers |-> <<"rust", ".rs", "cargo">>],
    [lang |-> "bash", markers |-> <<"bash", "zsh", ".sh", "shell">>]>>
task_markers ==
  <<"refactor", "test", "optimize", "document", "deploy", "debug",
    "fix", "lint", "typecheck", "benchmark", "profile", "migrate">>
style_markers ==
  <<"async", "clean", "performance", "oop", "functional", "tdd", "cli", "script">>
framework_markers ==
  <<"fastapi", "flask", "django", "react", "nextjs", "vue", "svelte",
    "spring", "springboot", "express", "nestjs">>
tool_markers ==
  <<"docker", "kubernetes", "k8s", "git", "curl", "jq", "pytest", "pip", "conda", "poetry",
    "uv ", "alembic", "black", "ruff", "flake8", "mypy", "pre-commit", "eslint", "prettier",
    "jest", "vitest", "playwright", "cypress">>

InSeq(x, xs) == \E i \in 1..Len(xs) : xs[i] = x

\* counter[name] = counter.get(name, 0) + 1
Inc(counter, name) ==
  Only({IF \E i \in 1..Len(c) : c[i].k = nm
        THEN [i \in 1..Len(c) |->
                IF c[i].k = nm THEN [k |-> nm, n |-> c[i].n + 1] ELSE c[i]]
        ELSE Append(c, [k |-> nm, n |-> 1]) :
        c \in {counter}, nm \in {name}})

\* counter[name] += 1 for each name in turn
RECURSIVE IncAll(_, _)
IncAll(counter, names) ==
  IF names = <<>> THEN counter ELSE IncAll(Inc(counter, Head(names)), Tail(names))

\* count_if_present: for each marker, in order, whose lower case is in text,
\* count it under key_map.get(m, m), or under m itself without a key_map
count_if_present(text, markers, counter, key_map) ==
  Only({IncAll(counter, [i \in 1..Len(present) |->
                           IF Truthy(key_map) THEN Get(key_map.d, present[i], present[i])
                           ELSE present[i]]) :
        present \in {Only({SelectSeq(markers, LAMBDA m : Contains(t, Lower(m))) :
                           t \in {text}})}})

\* for lang in lang_markers.keys(): if lang in tags: count it
LanguageFromTags(tags, langs, counter) ==
  Only({IncAll(counter, [i \in 1..Len(tagged) |-> tagged[i].lang]) :
        tagged \in {SelectSeq(langs, LAMBDA l : InSeq(l.lang, tags))}})

\* for lang, markers in lang_markers.items(): count_if_present(lower, markers,
\* language_counts), with no key_map
RECURSIVE LanguageFromText(_, _, _)
LanguageFromText(lower, langs, counter) ==
  IF langs = <<>> THEN counter
  ELSE LanguageFromText(lower, Tail(langs),
         count_if_present(lower, Head(langs).markers, counter, NoneV))

\* tags = [t.lower() for t in item["tags"] if t]
RECURSIVE LowerTags(_)
LowerTags(tags) ==
  IF tags = <<>> THEN <<>>
  ELSE IF Head(tags) = "" THEN LowerTags(Tail(tags))
  ELSE <<Lower(Head(tags))>> \o LowerTags(Tail(tags))

NoCounts == [languages |-> <<>>, tasks |-> <<>>, styles |-> <<>>,
             frameworks |-> <<>>, tools |-> <<>>]

\* the aggregation loop over the snapshot, rows in table order (tag_counts is
\* filled by the code and never read, so it is left out)
RECURSIVE Aggregate(_, _)
Aggregate(snap, counts) ==
  IF snap = <<>> THEN counts
  ELSE Only({Aggregate(Tail(snap),
               [languages |-> LanguageFromText(lower, lang_markers,
                                LanguageFromTags(tags, lang_markers, c.languages)),
                tasks |-> count_if_present(lower, task_markers, c.tasks, NoneV),
                styles |-> count_if_present(lower, style_markers, c.styles, NoneV),
                frameworks |-> count_if_present(lower, framework_markers, c.frameworks, NoneV),
                tools |-> count_if_present(lower, tool_markers, c.tools, NoneV)]) :
             tags \in {LowerTags(TagsOf(Head(snap).tags))},
             lower \in {Lower(Head(snap).command_text)},
             c \in {counts}})

\* sorted(counter.items(), key=lambda x: x[1], reverse=True): stable, so equal
\* counts keep their insertion order
RECURSIVE InsertByCount(_, _)
InsertByCount(sorted, e) ==
  Only({IF s = <<>> THEN <<x>>
        ELSE IF Head(s).n >= x.n THEN <<Head(s)>> \o InsertByCount(Tail(s), x)
        ELSE <<x>> \o s :
        s \in {sorted}, x \in {e}})
RECURSIVE SortedByCount(_)
SortedByCount(counter) ==
  Only({IF c = <<>> THEN <<>>
        ELSE InsertByCount(SortedByCount(SubSeq(c, 1, Len(c) - 1)), c[Len(c)]) :
        c \in {counter}})

\* [k for k, _ in sorted(...)[:n]]
Top(counter, n) ==
  Only({[i \in 1..Min(n, Len(srt)) |-> srt[i].k] : srt \in {SortedByCount(counter)}})

RECURSIVE Sum(_)
Sum(counter) == IF counter = <<>> THEN 0 ELSE Head(counter).n + Sum(Tail(counter))

\* round(top / total, 3), in thousandths, halves to even
Round3(top, total) ==
  LET q == (1000 * top) \div total
      r == (1000 * top) % total
  IN IF 2 * r > total \/ (2 * r = total /\ q % 2 = 1) THEN q + 1 ELSE q

\* analyze_preferences; a missing value (None) is NoneV
analyze_preferences(table) ==
  Only({[preferred_language |->
           IF c.languages = <<>> THEN NoneV
           ELSE StrV(IF lang_sorted[1].k = "python" THEN Capitalize(lang_sorted[1].k)
                     ELSE lang_sorted[1].k),
         preferred_language_confidence |->
           IF c.languages = <<>> THEN NoneV
           ELSE IntV(Round3(lang_sorted[1].n, Sum(c.languages))),
         common_tasks |->
           [i \in 1..Len(tasks) |-> StrReplace(tasks[i], "document", "documentation")],
         style |->
           IF styles = <<>> THEN NoneV
           ELSE StrV(StrJoin([i \in 1..Len(styles) |->
                                IF styles[i] \in {"oop", "tdd"} THEN Upper(styles[i])
                                ELSE styles[i]], ", ")),
         frameworks |-> Top(c.frameworks, 5),
         tools |-> Top(c.tools, 8),
         signals |-> c] :
        c \in {Aggregate(table, NoCounts)},
        lang_sorted \in {SortedByCount(Aggregate(table, NoCounts).languages)},
        styles \in {Top(Aggregate(table, NoCounts).styles, 5)},
        tasks \in {Top(Aggregate(table, NoCounts).tasks, 5)}})

context_groups ==
  <<[group |-> "documentation",
     kws |-> <<"doc", "docs", "documentation", "readme", "comment", "write", "update">>],
    [group |-> "testing", kws |-> <<"test", "pytest", "coverage", "unit", "integration">>],
    [group |-> "performance", kws |-> <<"perf", "optimize", "benchmark", "profile">>],
    [group |-> "deployment", kws |-> <<"deploy", "docker", "k8s", "kubernetes", "release">>],
    [group |-> "refactor", kws |-> <<"refactor", "clean", "restructure">>],
    [group |-> "debug", kws |-> <<"debug", "trace", "error", "fail">>]>>

\* [g for g, kws in context_groups.items() if any(k in lowered for k in kws)]
Matched(lowered) ==
  SelectSeq(context_groups, LAMBDA g : \E i \in 1..Len(g.kws) : Contains(lowered, g.kws[i]))

RECURSIVE Extend(_)
Extend(groups) == IF groups = <<>> THEN <<>> ELSE Head(groups).kws \o Extend(Tail(groups))

\* filter_list
filter_list(values, relevance_words, lowered) ==
  IF relevance_words = <<>> THEN <<>>
  ELSE SelectSeq(values,
         LAMBDA v : \E i \in 1..Len(relevance_words) :
                      \/ Contains(lowered, relevance_words[i])
                      \/ Contains(v, relevance_words[i]))

\* {k: v for k, v in counter.items() if k in relevance_words}
Overlap(counter, relevance_words) ==
  SelectSeq(counter, LAMBDA e : InSeq(e.k, relevance_words))

\* the result for a base whose style is a string
Contextual(base, context, lowered, groups, styles) ==
  LET matched_groups == [i \in 1..Len(groups) |-> groups[i].group]
      relevance_words == Extend(groups)
      overlap == [tasks |-> Overlap(base.signals.tasks, relevance_words),
                  styles |-> Overlap(base.signals.styles, relevance_words),
                  tools |-> Overlap(base.signals.tools, relevance_words)]
  IN IF matched_groups # <<>>
     THEN [matched_groups |-> matched_groups,
           preferred_language |-> base.preferred_language,
           style_subset |-> filter_list(styles, relevance_words, lowered),
           tasks_subset |-> filter_list(base.common_tasks, relevance_words, lowered),
           frameworks_subset |-> filter_list(base.frameworks, relevance_words, lowered),
           tools_subset |-> filter_list(base.tools, relevance_words, lowered),
           signals_overlap |-> overlap,
           context |-> context]
     ELSE [matched_groups |-> matched_groups,
           preferred_language |-> base.preferred_language,
           style_subset |-> IF Truthy(base.style) THEN styles ELSE <<>>,
           tasks_subset |-> SubSeq(base.common_tasks, 1, Min(3, Len(base.common_tasks))),
           frameworks_subset |-> SubSeq(base.frameworks, 1, Min(3, Len(base.frameworks))),
           tools_subset |-> SubSeq(base.tools, 1, Min(5, Len(base.tools))),
           signals_overlap |-> overlap,
           context |-> context,
           note |-> "No specific contextual group matched; returned neutral top signals."]

\* analyze_preferences_contextual (limit is not read).  base.get("style", "")
\* is None when no style keyword matched, and None has no split: building the
\* result raises before the fallback is looked at.
analyze_preferences_contextual(table, context) ==
  Only({IF base.style.t = "none" THEN Fault("AttributeError")
        ELSE Only({Payload(Contextual(base, context, lowered, groups, styles)) :
                   groups \in {Matched(lowered)},
                   styles \in {StrSplit(base.style.s, ", ")}}) :
        base \in {analyze_preferences(table)},
        lowered \in {Lower(context)}})

(***************************************************************************)
(* mcp_server.py: the facade                                               *)
(***************************************************************************)
\* safe_tags = [str(t) for t in tags if t is not None]
RECURSIVE SafeTags(_)
SafeTags(tags) ==
  IF tags = <<>> THEN <<>>
  ELSE IF Head(tags).t = "none" THEN SafeTags(Tail(tags))
  ELSE <<StrV(PyStr(Head(tags)))>> \o SafeTags(Tail(tags))

\* not command_text or not isinstance(command_text, str)
TextRejectedTypeOnly(command_text) == command_text.t # "str"
TextRejected(command_text) == ~Truthy(command_text) \/ command_text.t # "str"

\* the record_command tool
tool_record_command(table, now, command_text, tags) ==
  IF TextRejected(command_text)
  THEN [resp |-> Payload([error |-> "command_text_required"]), table |-> table]
  ELSE LET given == IF tags.t = "none" THEN ListV(<<>>) ELSE tags
       IN IF given.t # "list"
          THEN [resp |-> Payload([error |-> "tags_must_be_list"]), table |-> table]
          ELSE LET made == create_command(table, now, command_text.s, SafeTags(given.xs))
               IN [resp |-> IF made.raised = "" THEN Payload([status |-> "ok"])
                            ELSE Fault(made.raised),
                   table |-> made.table]

JSONResponse(body, status_code) ==
  [out |-> "payload", body |-> body, status_code |-> status_code]

\* the POST /record_command route; body is the request's JSON, or not JSON at all
record_command(table, now, body) ==
  IF body.t = "invalid"
  THEN [resp |-> JSONResponse([error |-> "invalid_json"], 400), table |-> table]
  ELSE IF Truthy(body) /\ body.t # "dict"
  THEN [resp |-> Fault("AttributeError"), table |-> table]
  ELSE LET data == IF Truthy(body) THEN body.d ELSE <<>>
           command_text == Get(data, "command_text", NoneV)
           got == Get(data, "tags", ListV(<<>>))
           tags == IF Truthy(got) THEN got ELSE ListV(<<>>)
       IN IF TextRejected(command_text)
          THEN [resp |-> JSONResponse([error |-> "command_text_required"], 400),
                table |-> table]
          ELSE IF tags.t # "list"
          THEN [resp |-> JSONResponse([error |-> "tags_must_be_list"], 400),
                table |-> table]
          ELSE LET made == create_command(table, now, command_text.s, tags.xs)
               IN [resp |-> IF made.raised = "" THEN JSONResponse([status |-> "ok"], 200)
                            ELSE Fault(made.raised),
                   table |-> made.table]

(***************************************************************************)
(* Inputs                                                                  *)
(***************************************************************************)
TextInputs == {NoneV, StrV(""), StrV("a"), IntV(7), IntV(0)}
TagsInputs ==
  {NoneV, StrV("x"), ListV(<<>>), ListV(<<StrV("a"), StrV("b")>>),
   ListV(<<IntV(1), NoneV, StrV("a")>>)}
BodyInputs ==
  {[t |-> "invalid"], NoneV, ListV(<<IntV(1)>>), DictV(<<>>)}
  \cup {DictV([tags |-> g]) : g \in {ListV(<<StrV("a")>>)}}
  \cup {DictV([command_text |-> c]) : c \in TextInputs}
  \cup {DictV([command_text |-> c, tags |-> g]) : c \in TextInputs, g \in TagsInputs}

\* tag lists for the round trip: every list of at most MaxTags tags of the pool
TagPool == {"", "a", "b", "b,c"}
TagLists ==
  UNION {{ListV([i \in 1..n |-> StrV(f[i])]) : f \in [1..n -> TagPool]} : n \in 0..MaxTags}

(***************************************************************************)
(* Actions                                                                 *)
(***************************************************************************)
\* a caller that has not called SessionLocal() yet
NoSession ==
  [op |-> "none", state |-> "none", txn |-> "none", raised |-> "none",
   out |-> "none", held |-> "nothing", ids |-> <<>>, reads |-> {}]

Idle == /\ pc = [c \in 1..NumCallers |-> "idle"]
        /\ pending = [c \in 1..NumCallers |-> <<>>]
        /\ writer = 0
        /\ session = [c \in 1..NumCallers |-> NoSession]

InitStore ==
  /\ rows = <<>>
  /\ clock = 0
  /\ call = [op |-> "init"]
  /\ resp = [out |-> "none"]
  /\ Idle

\* the wall clock advances between calls
Tick ==
  /\ clock < MaxClock
  /\ clock' = clock + 1
  /\ UNCHANGED <<rows, tieRank, session, call, resp, pc, pending, writer>>

\* a call of the record_command tool; cap bounds the table
ToolRecordCommand(command_text, tags, cap) ==
  LET r == tool_record_command(rows, clock, command_text, tags)
  IN /\ Len(r.table) <= cap
     /\ rows' = r.table
     /\ resp' = r.resp
     /\ call' = [op |-> "tool_record_command", command_text |-> command_text,
                 tags |-> tags, before |-> Len(rows)]
     /\ UNCHANGED <<clock, tieRank, session, pc, pending, writer>>

\* a POST /record_command request
RouteRecordCommand(body, cap) ==
  LET r == record_command(rows, clock, body)
  IN /\ Len(r.table) <= cap
     /\ rows' = r.table
     /\ resp' = r.resp
     /\ call' = [op |-> "record_command", body |-> body, before |-> Len(rows)]
     /\ UNCHANGED <<clock, tieRank, session, pc, pending, writer>>

\* the record call a read follows, if it follows one
Recorded == IF call.op \in {"tool_record_command", "record_command"}
            THEN call ELSE [op |-> "other"]

\* the commands tool and GET /commands
ListCommands ==
  /\ resp' = list_commands(rows, tieRank)
  /\ call' = [op |-> "list_commands", prev |-> Recorded]
  /\ UNCHANGED <<rows, clock, tieRank, session, pc, pending, writer>>

\* the memory_context tool
GetRecentContext(limit) ==
  /\ resp' = get_recent_context(rows, tieRank, limit)
  /\ call' = [op |-> "get_recent_context", limit |-> limit, prev |-> Recorded]
  /\ UNCHANGED <<rows, clock, tieRank, session, pc, pending, writer>>

(***************************************************************************)
(* Spec: the two record boundaries with every kind of input                *)
(***************************************************************************)
Init ==
  /\ InitStore
  /\ tieRank = [i \in 1..MaxRows |-> i]

Next ==
  \/ Tick
  \/ \E c \in TextInputs, g \in TagsInputs : ToolRecordCommand(c, g, MaxRows)
  \/ \E b \in BodyInputs : RouteRecordCommand(b, MaxRows)

Spec == Init /\ [][Next]_vars

(***************************************************************************)
(* SpecList: inserts and the two ordered reads, under every order the      *)
(* engine may give to rows of equal timestamp                              *)
(***************************************************************************)
InitList ==
  /\ InitStore
  /\ tieRank \in Permutations(1..MaxListRows)

NextList ==
  \/ Tick
  \/ \E g \in {NoneV, ListV(<<StrV("a")>>)} : ToolRecordCommand(StrV("a"), g, MaxListRows)
  \/ ListCommands
  \/ \E n \in (-1)..MaxLimit : GetRecentContext(n)

SpecList == InitList /\ [][NextList]_vars

(***************************************************************************)
(* SpecTags: records with every tag list, read back                        *)
(***************************************************************************)
InitTags ==
  /\ InitStore
  /\ tieRank \in Permutations(1..MaxTagRows)

NextTags ==
  \/ \E g \in TagLists : ToolRecordCommand(StrV("a"), g, MaxTagRows)
  \/ \E g \in TagLists :
       RouteRecordCommand(DictV([command_text |-> StrV("a"), tags |-> g]), MaxTagRows)
  \/ ListCommands
  \/ \E n \in 1..MaxTagRows : GetRecentContext(n)

SpecTags == InitTags /\ [][NextTags]_vars

(***************************************************************************)
(* SpecPrefs: records with texts and tags that carry signals, and the two  *)
(* preference reads                                                        *)
(***************************************************************************)
PrefTexts == {"run main.py", "Deploy the async api", "fix it", "write TDD docs in python"}
PrefTags == {NoneV, ListV(<<StrV("python")>>), ListV(<<StrV("go")>>)}
Contexts == {"hello", "please update the docs", "Deploy it"}

\* the preferences tool and GET /preferences
Preferences ==
  /\ resp' = Payload(analyze_preferences(rows))
  /\ call' = [op |-> "analyze_preferences"]
  /\ UNCHANGED <<rows, clock, tieRank, session, pc, pending, writer>>

\* the contextual_preferences tool and POST /preferences/contextual
ContextualPreferences(context) ==
  /\ resp' = analyze_preferences_contextual(rows, context)
  /\ call' = [op |-> "analyze_preferences_contextual", context |-> context]
  /\ UNCHANGED <<rows, clock, tieRank, session, pc, pending, writer>>

InitPrefs ==
  /\ InitStore
  /\ tieRank = [i \in 1..MaxPrefRows |-> i]

NextPrefs ==
  \/ \E c \in PrefTexts, g \in PrefTags : ToolRecordCommand(StrV(c), g, MaxPrefRows)
  \/ Preferences
  \/ \E c \in Contexts : ContextualPreferences(c)

SpecPrefs == InitPrefs /\ [][NextPrefs]_vars

(***************************************************************************)
(* SpecConc: NumCallers independent callers, each running create_command   *)
(* once, step by step through its session_scope.  The database admits one  *)
(* writing transaction at a time: a second INSERT waits for the first       *)
(* transaction to end.                                                      *)
(***************************************************************************)
Callers == 1..NumCallers

\* the database's write lock is free
CanWrite == writer = 0

\* SessionLocal(), then the body: the entry is built and added to the session
Begin(c) ==
  /\ pc[c] = "idle"
  /\ pc' = [pc EXCEPT ![c] = "added"]
  /\ pending' = [pending EXCEPT ![c] = <<[command_text |-> NatToStr(c), tags |-> <<>>]>>]
  /\ UNCHANGED <<rows, clock, tieRank, session, call, resp, writer>>

\* db.commit() first flushes: the INSERT takes the write lock, and the row gets
\* its id from the table and its timestamp from the clock
Flush(c) ==
  /\ pc[c] = "added"
  /\ CanWrite
  /\ writer' = c
  /\ pc' = [pc EXCEPT ![c] = "flushed"]
  /\ pending' = [pending EXCEPT ![c] =
                   <<Command(rows, pending[c][1].command_text, pending[c][1].tags, clock)>>]
  /\ UNCHANGED <<rows, clock, tieRank, session, call, resp>>

\* db.commit() then commits: the row is in the table and the lock is released
Commit(c) ==
  /\ pc[c] = "flushed"
  /\ rows' = rows \o pending[c]
  /\ writer' = 0
  /\ pc' = [pc EXCEPT ![c] = "committed"]
  /\ pending' = [pending EXCEPT ![c] = <<>>]
  /\ UNCHANGED <<clock, tieRank, session, call, resp>>

\* finally: db.close()
Close(c) ==
  /\ pc[c] = "committed"
  /\ pc' = [pc EXCEPT ![c] = "done"]
  /\ UNCHANGED <<rows, clock, tieRank, session, call, resp, pending, writer>>

InitConc ==
  /\ rows \in {<<>>, <<Command(<<>>, "a", <<>>, 0)>>}
  /\ clock = 0
  /\ call = [op |-> "create_command", before |-> Len(rows)]
  /\ resp = [out |-> "none"]
  /\ tieRank = [i \in 1..(NumCallers + 1) |-> i]
  /\ Idle

NextConc ==
  \/ Tick
  \/ \E c \in Callers : Begin(c)
  \/ \E c \in Callers : Flush(c)
  \/ \E c \in Callers : Commit(c)
  \/ \E c \in Callers : Close(c)

SpecConc == InitConc /\ [][NextConc]_vars

(***************************************************************************)
(* database.session_scope, statement by statement, around the bodies that  *)
(* crud.py runs in it.  session[c] is caller c's Session: txn is its       *)
(* transaction, raised the exception in flight, out what left the with     *)
(* statement, held what the function keeps of the query result once the    *)
(* with statement is over, and reads the field reads made so far, each     *)
(* with the kind of object read and whether the session was open.          *)
(***************************************************************************)
Scopes == 1..NumScopes

ReadOps == {"list_commands", "get_recent_context", "compute_stats", "analyze_preferences"}

\* the row fields each function reads inside its with block
Inside(op) ==
  CASE op = "list_commands" -> {"command_text", "tags", "timestamp"}
    [] op = "get_recent_context" -> {"command_text", "tags", "timestamp"}
    [] op = "compute_stats" -> {}
    [] op = "analyze_preferences" -> {"command_text", "tags"}

\* what the function holds of the rows when the with block ends: the dicts it
\* built, or (snap = list(rows)) the row objects themselves
Escapes(op) == IF op = "compute_stats" THEN "row" ELSE "copy"

\* the fields of what it holds that the function reads after the with block
After(op) ==
  CASE op = "list_commands" -> {}
    [] op = "get_recent_context" -> {}
    [] op = "compute_stats" -> {"tags", "timestamp"}
    [] op = "analyze_preferences" -> {"command_text", "tags"}

\* the reads of fields on the objects of kind, one per row and field
FieldReads(kind, ids, fields, open) ==
  {[kind |-> kind, id |-> ids[i], field |-> f, open |-> open] :
     i \in 1..Len(ids), f \in fields}

\* except Exception: KeyboardInterrupt is a BaseException only
Catches(exc) == exc \in {"TypeError", "OperationalError"}

\* the yield returned: the body ran to its end
CompletedAlways(s) == TRUE
Completed(s) == s.raised = "none"

\* the write lock once caller c's transaction has ended
Released(c, w) == IF w = c THEN 0 ELSE w

\* db: Session = SessionLocal()
ScopeEnter(c, op) ==
  /\ pc[c] = "idle"
  /\ session' = [session EXCEPT ![c] =
                   [NoSession EXCEPT !.op = op, !.state = "open", !.txn = "begun"]]
  /\ pc' = [pc EXCEPT ![c] = "body"]
  /\ UNCHANGED <<rows, clock, tieRank, call, resp, pending, writer>>

\* the body of create_command: join raises TypeError on a non-string tag,
\* before the entry is added
ScopeCreate(c, tags) ==
  /\ pc[c] = "body"
  /\ session[c].op = "create_command"
  /\ IF AllStr(tags)
     THEN /\ pending' = [pending EXCEPT ![c] =
                           <<[command_text |-> NatToStr(c), tags |-> Strings(tags)]>>]
          /\ UNCHANGED session
     ELSE /\ session' = [session EXCEPT ![c].raised = "TypeError"]
          /\ UNCHANGED pending
  /\ pc' = [pc EXCEPT ![c] = "yielded"]
  /\ UNCHANGED <<rows, clock, tieRank, call, resp, writer>>

\* the body of a read: the query, and the fields read while the block is open
ScopeRead(c) ==
  /\ pc[c] = "body"
  /\ session[c].op \in ReadOps
  /\ session' = [session EXCEPT
                   ![c].ids = Ids(rows),
                   ![c].held = Escapes(session[c].op),
                   ![c].reads = FieldReads("row", Ids(rows), Inside(session[c].op),
                                           session[c].state = "open")]
  /\ pc' = [pc EXCEPT ![c] = "yielded"]
  /\ UNCHANGED <<rows, clock, tieRank, call, resp, pending, writer>>

\* KeyboardInterrupt, in the body or while the commit is under way
ScopeInterrupt(c) ==
  /\ pc[c] \in {"body", "flushed"}
  /\ session' = [session EXCEPT ![c].raised = "KeyboardInterrupt"]
  /\ pc' = [pc EXCEPT ![c] = IF pc[c] = "body" THEN "yielded" ELSE "raised"]
  /\ UNCHANGED <<rows, clock, tieRank, call, resp, pending, writer>>

\* db.commit() flushes first: an added entry is inserted under the write lock
\* and gets its id and timestamp; with nothing added there is nothing to write
ScopeFlush(c) ==
  /\ pc[c] = "yielded"
  /\ Completed(session[c])
  /\ IF pending[c] = <<>>
     THEN UNCHANGED <<pending, writer>>
     ELSE /\ CanWrite
          /\ writer' = c
          /\ pending' = [pending EXCEPT ![c] =
                           <<Command(rows, pending[c][1].command_text,
                                     pending[c][1].tags, clock)>>]
  /\ pc' = [pc EXCEPT ![c] = "flushed"]
  /\ UNCHANGED <<rows, clock, tieRank, call, resp, session>>

\* the flush gives up waiting for the write lock: database is locked
ScopeFlushLocked(c) ==
  /\ pc[c] = "yielded"
  /\ Completed(session[c])
  /\ pending[c] # <<>>
  /\ ~CanWrite
  /\ session' = [session EXCEPT ![c].raised = "OperationalError"]
  /\ pc' = [pc EXCEPT ![c] = "raised"]
  /\ UNCHANGED <<rows, clock, tieRank, call, resp, pending, writer>>

\* db.commit() commits: the inserted row is in the table, the lock is free
ScopeCommit(c) ==
  /\ pc[c] = "flushed"
  /\ rows' = rows \o pending[c]
  /\ writer' = Released(c, writer)
  /\ pending' = [pending EXCEPT ![c] = <<>>]
  /\ session' = [session EXCEPT ![c].txn = "committed"]
  /\ pc' = [pc EXCEPT ![c] = "finally"]
  /\ UNCHANGED <<clock, tieRank, call, resp>>

\* db.commit() raises when the database refuses the COMMIT
ScopeCommitFails(c) ==
  /\ pc[c] = "flushed"
  /\ session' = [session EXCEPT ![c].raised = "OperationalError"]
  /\ pc' = [pc EXCEPT ![c] = "raised"]
  /\ UNCHANGED <<rows, clock, tieRank, call, resp, pending, writer>>

\* an exception is in flight: out of the body, or out of db.commit()
InFlight(c) ==
  \/ pc[c] = "yielded" /\ ~Completed(session[c])
  \/ pc[c] = "raised"

\* except Exception: db.rollback(); raise
ScopeRollback(c) ==
  /\ InFlight(c)
  /\ Catches(session[c].raised)
  /\ pending' = [pending EXCEPT ![c] = <<>>]
  /\ writer' = Released(c, writer)
  /\ session' = [session EXCEPT ![c].txn = "rolledback"]
  /\ pc' = [pc EXCEPT ![c] = "finally"]
  /\ UNCHANGED <<rows, clock, tieRank, call, resp>>

\* finally: db.close(), which ends a transaction still in progress without
\* applying it; then the exception in flight, if any, leaves the with statement
ScopeClose(c) ==
  /\ \/ pc[c] = "finally"
     \/ InFlight(c) /\ ~Catches(session[c].raised)
  /\ pending' = [pending EXCEPT ![c] = <<>>]
  /\ writer' = Released(c, writer)
  /\ session' = [session EXCEPT
                   ![c].state = "closed",
                   ![c].txn = IF session[c].txn = "begun" THEN "rolledback"
                              ELSE session[c].txn,
                   ![c].out = session[c].raised]
  /\ pc' = [pc EXCEPT ![c] = "exited"]
  /\ UNCHANGED <<rows, clock, tieRank, call, resp>>

\* the statements after the with block, reached when nothing was raised: the
\* function reads what it holds
ScopeAfter(c) ==
  /\ pc[c] = "exited"
  /\ session' = [session EXCEPT ![c].reads =
                   IF session[c].out = "none" /\ session[c].op \in ReadOps
                   THEN session[c].reads \cup
                          FieldReads(session[c].held, session[c].ids,
                                     After(session[c].op), session[c].state = "open")
                   ELSE session[c].reads]
  /\ pc' = [pc EXCEPT ![c] = "done"]
  /\ UNCHANGED <<rows, clock, tieRank, call, resp, pending, writer>>

ScopeTags == {<<>>, <<StrV("a")>>, <<IntV(1)>>}

InitScope ==
  /\ rows \in {<<>>, <<Command(<<>>, "a", <<>>, 0)>>}
  /\ clock = 0
  /\ call = [op |-> "session_scope", before |-> Len(rows)]
  /\ resp = [out |-> "none"]
  /\ tieRank = [i \in 1..(NumScopes + 1) |-> i]
  /\ Idle

NextScope ==
  \/ \E c \in Scopes, op \in ReadOps \cup {"create_command"} : ScopeEnter(c, op)
  \/ \E c \in Scopes, tags \in ScopeTags : ScopeCreate(c, tags)
  \/ \E c \in Scopes : ScopeRead(c)
  \/ \E c \in Scopes : ScopeInterrupt(c)
  \/ \E c \in Scopes : ScopeFlush(c)
  \/ \E c \in Scopes : ScopeFlushLocked(c)
  \/ \E c \in Scopes : ScopeCommit(c)
  \/ \E c \in Scopes : ScopeCommitFails(c)
  \/ \E c \in Scopes : ScopeRollback(c)
  \/ \E c \in Scopes : ScopeClose(c)
  \/ \E c \in Scopes : ScopeAfter(c)

SpecScope == InitScope /\ [][NextScope]_vars

(***************************************************************************)
(* Properties                                                              *)
(***************************************************************************)
IsRecordCall == call.op \in {"tool_record_command", "record_command"}

\* the text and the tags a record call carries, as the caller sent them
SentText ==
  IF call.op = "tool_record_command" THEN call.command_text
  ELSE IF call.body.t = "dict" /\ "command_text" \in DOMAIN call.body.d
       THEN call.body.d.command_text
       ELSE [t |-> "missing"]
SentTags ==
  IF call.op = "tool_record_command" THEN call.tags
  ELSE IF call.body.t = "dict" /\ "tags" \in DOMAIN call.body.d
       THEN call.body.d.tags
       ELSE [t |-> "missing"]

\* the text is missing, not a string, or the empty string
BadText(v) == v.t # "str" \/ v.s = ""

RowOf(id) == CHOOSE r \in {rows[i] : i \in 1..Len(rows)} : r.id = id

\* C3: what list_commands returns is sorted non-increasing by timestamp, and
\* rows of equal timestamp come in descending id order.
C3_ListSortedTiesByIdDesc ==
  call.op = "list_commands"
    => \A i, j \in 1..Len(resp.ids) :
         i < j => LET a == RowOf(resp.ids[i])
                      b == RowOf(resp.ids[j])
                  IN \/ a.timestamp > b.timestamp
                     \/ (a.timestamp = b.timestamp /\ a.id > b.id)

\* C4: for a positive limit, get_recent_context returns exactly
\* min(limit, number of rows) items, and they are, in order, the first that
\* many items list_commands returns on the same table.
C4_RecentIsPrefixOfList ==
  (call.op = "get_recent_context" /\ call.limit >= 1)
    => LET n == Min(call.limit, Len(rows))
           all == list_commands(rows, tieRank)
       IN /\ Len(resp.body.items) = n
          /\ resp.body.items = SubSeq(all.body, 1, n)
          /\ resp.ids = SubSeq(all.ids, 1, n)
          /\ resp.body.recent_commands = [i \in 1..n |-> all.body[i].command_text]

C4_Witness ==
  /\ call.op = "get_recent_context"
  /\ call.limit = 2
  /\ Len(rows) = 3
  /\ rows[2].timestamp = rows[3].timestamp
  /\ Len(resp.body.items) = 2

NoSeparator(tags) == \A i \in 1..Len(tags) : ~Contains(tags[i].s, ",")

\* the tags of the item a read returned for the row the record call before it
\* inserted (the row of the largest id)
ReadItems == IF call.op = "list_commands" THEN resp.body ELSE resp.body.items
ReadBackOfNewest ==
  LET i == CHOOSE i \in 1..Len(resp.ids) : resp.ids[i] = Len(rows)
  IN ReadItems[i].tags
IsReadAfterInsert ==
  /\ call.op \in {"list_commands", "get_recent_context"}
  /\ call.prev.op \in {"tool_record_command", "record_command"}
  /\ Len(rows) = call.prev.before + 1
  /\ \E i \in 1..Len(resp.ids) : resp.ids[i] = Len(rows)
TagsOfPrev ==
  IF call.prev.op = "tool_record_command" THEN call.prev.tags.xs
  ELSE call.prev.body.d.tags.xs

\* C5 as stated: a record inserted with tags T, none of which contains ",",
\* reads back (list or recent) with exactly T; the empty T reads back empty.
C5_TagRoundTrip ==
  (IsReadAfterInsert /\ NoSeparator(TagsOfPrev))
    => ReadBackOfNewest = Strings(TagsOfPrev)

\* C5 amended: the same for every such T other than the one-element sequence
\* holding the empty string (which is stored as "" and reads back empty).
C5_TagRoundTripBarEmptyTag ==
  (IsReadAfterInsert /\ NoSeparator(TagsOfPrev) /\ TagsOfPrev # <<StrV("")>>)
    => ReadBackOfNewest = Strings(TagsOfPrev)

C5_Witness ==
  /\ IsReadAfterInsert
  /\ call.op = "get_recent_context"
  /\ TagsOfPrev = <<StrV("a"), StrV("")>>
  /\ ReadBackOfNewest = <<"a", "">>

C5_WitnessEmpty ==
  /\ IsReadAfterInsert
  /\ TagsOfPrev = <<>>
  /\ ReadBackOfNewest = <<>>

\* the string forms of the non-null entries, in their order
RECURSIVE StringForms(_)
StringForms(xs) ==
  IF xs = <<>> THEN <<>>
  ELSE IF Head(xs).t = "none" THEN StringForms(Tail(xs))
  ELSE <<PyStr(Head(xs))>> \o StringForms(Tail(xs))

\* C6: on both boundaries a record call with a non-empty string text and a tags
\* list holding non-string or null entries returns {status: "ok"} and stores
\* one row whose tags are the string forms of the non-null entries, in order.
C6_NonStringTagsAccepted ==
  (/\ IsRecordCall
   /\ ~BadText(SentText)
   /\ SentTags.t = "list"
   /\ \E i \in 1..Len(SentTags.xs) : SentTags.xs[i].t # "str")
    => /\ resp.out = "payload"
       /\ resp.body = [status |-> "ok"]
       /\ Len(rows) = call.before + 1
       /\ TagsOf(rows[Len(rows)].tags) = StringForms(SentTags.xs)

HasNote == "note" \in DOMAIN resp.body
FirstN(xs, n) == SubSeq(xs, 1, Min(n, Len(xs)))

\* C2: for every table, analyze_preferences_contextual returns a payload, not a
\* fault; with no matched group it is the fallback (top 3 baseline tasks, the
\* full baseline style list, top 3 frameworks, top 5 tools) with a note, and
\* with a matched group it has no note.
C2_ContextualNeverFaults ==
  call.op = "analyze_preferences_contextual"
    => /\ resp.out = "payload"
       /\ LET base == analyze_preferences(rows)
          IN IF resp.body.matched_groups = <<>>
             THEN /\ HasNote
                  /\ resp.body.tasks_subset = FirstN(base.common_tasks, 3)
                  /\ resp.body.style_subset =
                       (IF base.style.t = "none" THEN <<>> ELSE StrSplit(base.style.s, ", "))
                  /\ resp.body.frameworks_subset = FirstN(base.frameworks, 3)
                  /\ resp.body.tools_subset = FirstN(base.tools, 5)
             ELSE ~HasNote

LanguageNames == {lang_markers[i].lang : i \in 1..Len(lang_markers)}
CountOf(counter, name) ==
  IF \E i \in 1..Len(counter) : counter[i].k = name
  THEN (CHOOSE e \in {counter[i] : i \in 1..Len(counter)} : e.k = name).n
  ELSE 0

\* no language marker occurs in the text of any row
NoTextMarker ==
  \A r \in 1..Len(rows), i \in 1..Len(lang_markers) :
    \A j \in 1..Len(lang_markers[i].markers) :
      ~Contains(Lower(rows[r].command_text), lang_markers[i].markers[j])

\* C7: preferred_language is the language of the highest count, the first in
\* python > typescript > javascript > go > java > rust > bash among those that
\* share it, whatever the order of the records; it is null when no language
\* signal fired.  (Stated for tables whose language signals all come from tags;
\* the letter case of the reported name is not compared.)
C7_PreferredByCountThenPriority ==
  (call.op = "analyze_preferences" /\ NoTextMarker)
    => LET counts == resp.body.signals.languages
           best == CHOOSE i \in 1..Len(lang_markers) :
                     /\ \A j \in 1..Len(lang_markers) :
                          CountOf(counts, lang_markers[j].lang)
                            <= CountOf(counts, lang_markers[i].lang)
                     /\ \A j \in 1..(i - 1) :
                          CountOf(counts, lang_markers[j].lang)
                            < CountOf(counts, lang_markers[i].lang)
       IN IF counts = <<>> THEN resp.body.preferred_language = NoneV
          ELSE /\ resp.body.preferred_language.t = "str"
               /\ Lower(resp.body.preferred_language.s) = lang_markers[best].lang

\* the rows that carry the tag, and the rows whose text holds a marker of the language
Tagged(name) ==
  Cardinality({r \in 1..Len(rows) : InSeq(name, LowerTags(TagsOf(rows[r].tags)))})
Marked(i) ==
  Cardinality({r \in 1..Len(rows) :
                 \E j \in 1..Len(lang_markers[i].markers) :
                   Contains(Lower(rows[r].command_text), lang_markers[i].markers[j])})

\* C8: the tag signal and the text-marker signal of a language count under the
\* same key: every key of signals.languages is one of the seven language names,
\* and a language's count is at least the rows tagged with it plus the rows
\* whose text holds one of its markers.
C8_MarkersCountTowardLanguage ==
  call.op = "analyze_preferences"
    => LET counts == resp.body.signals.languages
       IN /\ \A e \in 1..Len(counts) : counts[e].k \in LanguageNames
          /\ \A i \in 1..Len(lang_markers) :
               CountOf(counts, lang_markers[i].lang)
                 >= Tagged(lang_markers[i].lang) + Marked(i)

\* the trigger words of the groups the response names
RelevanceWords ==
  UNION {{context_groups[g].kws[k] : k \in 1..Len(context_groups[g].kws)} :
           g \in {g \in 1..Len(context_groups) :
                    InSeq(context_groups[g].group, resp.body.matched_groups)}}

\* v appears verbatim in the lowercased context, or v and a relevance word
\* contain one another
Relevant(v) ==
  \/ Contains(Lower(call.context), v)
  \/ \E w \in RelevanceWords : Contains(v, w) \/ Contains(w, v)

\* C9: with at least one matched group, every entry of the four subsets is
\* relevant to the context in the sense above.
C9_SubsetsAreRelevant ==
  (/\ call.op = "analyze_preferences_contextual"
   /\ resp.out = "payload"
   /\ resp.body.matched_groups # <<>>)
    => \A sub \in {resp.body.tasks_subset, resp.body.style_subset,
                   resp.body.frameworks_subset, resp.body.tools_subset} :
         \A i \in 1..Len(sub) : Relevant(sub[i])

AllDone == \A c \in Callers : pc[c] = "done"

ScopeOver(c) == pc[c] \in {"exited", "done"}

\* the rows of the table that caller c's create_command wrote
OwnRows(c) == {i \in 1..Len(rows) : rows[i].command_text = NatToStr(c)}

\* C11: session_scope commits exactly when its body completes normally (and the
\* commit goes through); when the body or the commit raises, the transaction
\* is rolled back and the same exception leaves the with statement; the session
\* is closed on every exit path; and no write of a transaction that did not
\* commit is ever in the table.
C11_ScopeCommitsOrRollsBack ==
  \A c \in Scopes :
    /\ OwnRows(c) # {} => session[c].txn = "committed"
    /\ session[c].txn = "committed" => session[c].raised = "none"
    /\ ScopeOver(c) =>
         /\ session[c].state = "closed"
         /\ session[c].txn \in {"committed", "rolledback"}
         /\ session[c].txn = "committed" <=> session[c].raised = "none"
         /\ session[c].out = session[c].raised
         /\ pending[c] = <<>>
         /\ writer # c
         /\ session[c].raised = "none" /\ session[c].op = "create_command"
              => Cardinality(OwnRows(c)) = 1

\* one create_command whose commit raised after its row was inserted, and one
\* whose commit went through, both past their with statement
C11_Witness ==
  \E c, d \in Scopes :
    /\ ScopeOver(c) /\ ScopeOver(d)
    /\ session[c].op = "create_command" /\ session[d].op = "create_command"
    /\ session[c].out = "OperationalError" /\ session[c].txn = "rolledback"
    /\ session[d].txn = "committed" /\ OwnRows(d) # {}

\* C12: every read operation copies the fields it needs while its scope is
\* open: no field of a row object is read once the session is closed.
C12_NoRowReadAfterClose ==
  \A c \in Scopes : \A e \in session[c].reads : e.kind = "row" => e.open
====
